---- MODULE Spec2Model ----
(***************************************************************************)
(* Model of foreground-child: foregroundChild (src/src/index.ts) and       *)
(* proxySignals (src/src/proxy-signals.ts).  One parent process spawns one *)
(* child, proxies signals to it, attaches a watchdog and, when the child   *)
(* closes, reconciles its own exit with the value of the cleanup callback. *)
(***************************************************************************)
EXTENDS Integers, Sequences, FiniteSets, TLC

(* ------------------------------ bounds -------------------------------- *)

\* how many times the child's 'exit' / 'close' notification may be delivered
MaxEmit == 2
\* how many signals the environment delivers to the parent in one run
MaxSignals == 1
\* how many messages arrive at the parent, from above or from the child
MaxMessages == 1

(* --------------------------- value universe ---------------------------- *)

\* the signal catalog (all-signals.ts): an ordered sequence of signal names
allSignals == <<"SIGHUP", "SIGINT", "SIGTERM">>

Signals == {allSignals[i] : i \in 1..Len(allSignals)}

\* platforms: the signals process.on accepts, and the signals kill() sends
SubscribableChoices == {Signals, Signals \ {"SIGTERM"}}
SendableChoices ==
  {Signals, Signals \ {"SIGHUP"}, Signals \ {"SIGHUP", "SIGTERM"}}

\* JavaScript values that flow through the close handler
Undefined == [t |-> "undefined"]
Null == [t |-> "null"]
False == [t |-> "false"]
True == [t |-> "true"]
Num(n) == [t |-> "number", n |-> n]
Str(s) == [t |-> "string", s |-> s]
\* an object with a callable then (a promise), and one without
PromiseObj == [t |-> "object", then |-> TRUE]
PlainObj == [t |-> "object", then |-> FALSE]

\* exit codes a child can report and numbers a cleanup can return
ChildCodes == {0, 3}
CleanupNumbers == {0, 42}
\* strings a cleanup can return: signal names, and the empty string
CleanupStrings == {"SIGINT", "SIGTERM", ""}

\* the (code, signal) pairs the 'close' event can carry: exactly one is set
ChildDispositions ==
  {[code |-> Num(c), signal |-> Null] : c \in ChildCodes}
    \cup {[code |-> Null, signal |-> Str(s)] : s \in Signals}

\* what the cleanup callback can return, or resolve a returned promise to
CleanupValues ==
  {Undefined, False, True, Null, PlainObj}
    \cup {Num(n) : n \in CleanupNumbers}
    \cup {Str(s) : s \in CleanupStrings}

\* typeof v
TypeOf(v) ==
  CASE v.t = "number" -> "number"
    [] v.t = "string" -> "string"
    [] v.t \in {"false", "true"} -> "boolean"
    [] v.t = "undefined" -> "undefined"
    [] OTHER -> "object"

\* JavaScript truthiness of v
Truthy(v) ==
  CASE v.t = "number" -> v.n # 0
    [] v.t = "string" -> v.s # ""
    [] v.t \in {"true", "object"} -> TRUE
    [] OTHER -> FALSE

(* ------------------------------- state --------------------------------- *)

VARIABLES
  phase,          \* "idle" before the call, "started" after foregroundChild
  subscribable,   \* signals process.on accepts on this platform
  sendable,       \* signals kill() can send on this platform
  hasIPC,         \* process.send exists
  preMessage,     \* 'message' listeners of the parent before the call
  messageListeners, \* 'message' listeners of the parent now
  childMessageRelay, \* child.on('message') relay installed
  msgs,           \* message counts: received, relayed, handled by the host
  signalListeners,  \* process signal listeners: [sig, owner] records
  listeners,      \* the Map of proxySignals: signal names with a listener
  exitHook,       \* onExit(childHangup) is registered
  dog,            \* watchdog helper: "none", "polling", "exited"
  done,           \* guard flag of the close handler
  closePc,        \* close handler: "idle", "awaiting", "returned", "threw"
  promise,        \* promise returned by cleanup: state and value
  saved,          \* (code, signal) captured by the suspended close handler
  cleanupCalls,   \* arguments of every cleanup invocation, in order
  res,            \* the local res of the close handler (line 180)
  parentEnd,      \* "none" while the parent lives, else how it ended
  parentLog,      \* exit / self-kill calls made by the close handler
  childAlive,     \* the child process exists
  childDisp,      \* how the child terminated
  exitEmitted,    \* deliveries of the child's 'exit' event
  closeEmitted,   \* deliveries of the child's 'close' event
  childLog,       \* kill() calls made on the child, in order
  delivered       \* the signals delivered to the parent, in order

vars ==
  <<phase, subscribable, sendable, hasIPC, preMessage, messageListeners,
    childMessageRelay, msgs, signalListeners, listeners, exitHook, dog,
    done, closePc, promise, saved, res, cleanupCalls, parentEnd, parentLog,
    childAlive, childDisp, exitEmitted, closeEmitted, childLog, delivered>>

parentAlive == parentEnd = "none"

platformVars == <<subscribable, sendable, hasIPC, preMessage>>

NoMessages ==
  [in |-> 0, toChild |-> 0, host |-> 0, fromChild |-> 0, up |-> 0]
NoPromise == [state |-> "none"]
Unset == [t |-> "unset"]
NoDisp == [code |-> Null, signal |-> Null]

\* the host process before foregroundChild is called
Init ==
  /\ phase = "idle"
  /\ subscribable \in SubscribableChoices
  /\ sendable \in SendableChoices
  /\ hasIPC \in BOOLEAN
  /\ preMessage = {"host"}
  /\ messageListeners = preMessage
  /\ childMessageRelay = FALSE
  /\ msgs = NoMessages
  /\ signalListeners = {[sig |-> "SIGINT", owner |-> "host"]}
  /\ listeners = {}
  /\ exitHook = FALSE
  /\ dog = "none"
  /\ done = FALSE
  /\ closePc = "idle"
  /\ promise = NoPromise
  /\ saved = NoDisp
  /\ cleanupCalls = <<>>
  /\ res = Unset
  /\ parentEnd = "none"
  /\ parentLog = <<>>
  /\ childAlive = FALSE
  /\ childDisp = NoDisp
  /\ exitEmitted = 0
  /\ closeEmitted = 0
  /\ childLog = <<>>
  /\ delivered = <<>>

(* --------------------------- proxy-signals.ts -------------------------- *)

\* child.kill(sig) as the callers see it: it throws when the signal cannot
\* be sent, reaches the child while the handle is open, and is a no-op
\* returning false once the child's exit was reported
childKill(sig, by) ==
  [sig |-> sig, by |-> by,
   outcome |-> IF sig \notin sendable THEN "throw"
               ELSE IF exitEmitted = 0 THEN "sent" ELSE "noop"]

\* variant: a throw of child.kill leaves the listener
swallowedNever(outcome) == outcome # "throw"

\* lines 20-24: try { child.kill(sig) } catch (_) {}: whether the listener
\* returns normally after a child.kill with this outcome
swallowed(outcome) == TRUE

\* variant: the listener calls child.kill() without the signal name
listenerDefaultSignal(sig) == <<childKill("SIGTERM", "proxy")>>

\* the listener proxySignals installs for sig: forward, swallow a throw
listener(sig) == <<childKill(sig, "proxy")>>

\* the registration loop of proxySignals: the signals whose process.on
\* succeeded, which are the keys of the listeners Map
RECURSIVE proxyLoop(_, _, _)
proxyLoop(i, subs, acc) ==
  IF i > Len(allSignals) THEN acc
  ELSE LET sig == allSignals[i] IN
       IF sig = "" THEN proxyLoop(i + 1, subs, acc)
       ELSE IF sig \in subs THEN proxyLoop(i + 1, subs, acc \cup {sig})
       ELSE proxyLoop(i + 1, subs, acc)

proxySignals(subs) == proxyLoop(1, subs, {})

ProxyRecords(table) == {[sig |-> s, owner |-> "proxy"] : s \in table}

\* variant: unproxy removes every listener of the signals in the Map
unproxyAllListeners(procListeners, table) ==
  {l \in procListeners : l.sig \notin table}

\* variant: unproxy leaves the listeners on the process
unproxyKeeps(procListeners, table) == procListeners

\* unproxy: removeListener for every entry of the Map; the Map is kept
unproxy(procListeners, table) == procListeners \ ProxyRecords(table)

(* ------------------------------ index.ts ------------------------------- *)

\* variant: no SIGTERM after a SIGHUP that throws
childHangupNoFallback == <<childKill("SIGHUP", "hook")>>

\* childHangup: SIGHUP to the child, SIGTERM if that throws
childHangup ==
  LET first == childKill("SIGHUP", "hook") IN
  IF first.outcome = "throw"
  THEN <<first, childKill("SIGTERM", "hook")>>
  ELSE <<first>>

\* watchdog(child): the helper is spawned, or the spawn failed
watchdog == {"polling", "none"}

\* variant: a thenable is not recognised, so nothing is awaited
isPromiseNever(o) == FALSE

isPromise(o) == Truthy(o) /\ TypeOf(o) = "object" /\ o.then

\* variant: the relay is added next to the listeners already attached
relayListenersKeep(ls) == ls \cup {"relay"}

\* lines 213 and 219: removeAllListeners('message'), then the relay
relayListeners(ls) == {"relay"}

\* a 'message' event on the parent: every attached listener runs, the
\* relay calls child.send (lines 219-224)
onProcessMessage(ls, m) ==
  [m EXCEPT !.in = @ + 1,
            !.toChild = @ + (IF "relay" \in ls THEN 1 ELSE 0),
            !.host = @ + Cardinality(ls \ {"relay"})]

\* a 'message' event on the child: the relay calls process.send
\* (lines 215-217)
onChildMessage(relay, m) ==
  [m EXCEPT !.fromChild = @ + 1,
            !.up = @ + (IF relay THEN 1 ELSE 0)]

\* the call foregroundChild(...): spawn, exit hook, proxy, watchdog, relay
foregroundChild ==
  /\ phase = "idle"
  /\ phase' = "started"
  /\ childAlive' = TRUE
  /\ exitHook' = TRUE
  /\ listeners' = proxySignals(subscribable)
  /\ signalListeners' = signalListeners \cup ProxyRecords(listeners')
  /\ dog' \in watchdog
  /\ IF hasIPC
     THEN /\ messageListeners' = relayListeners(messageListeners)
          /\ childMessageRelay' = TRUE
     ELSE UNCHANGED <<messageListeners, childMessageRelay>>
  /\ UNCHANGED <<platformVars, msgs, done, closePc, promise, saved, res,
                 cleanupCalls, parentEnd, parentLog, childDisp, exitEmitted,
                 closeEmitted, childLog, delivered>>

\* variant: the numeric branch leaves the child's signal in place
FinalDispositionKeepsSignal(r, code, signal) ==
  IF TypeOf(r) = "string" THEN [code |-> Null, signal |-> r]
  ELSE IF TypeOf(r) = "number" THEN [code |-> r, signal |-> signal]
  ELSE [code |-> code, signal |-> signal]

\* variant: the string branch leaves the child's code in place
FinalDispositionKeepsCode(r, code, signal) ==
  IF TypeOf(r) = "string" THEN [code |-> code, signal |-> r]
  ELSE IF TypeOf(r) = "number" THEN [code |-> r, signal |-> Null]
  ELSE [code |-> code, signal |-> signal]

\* variant: a string value is not taken as a signal override
FinalDispositionNoString(r, code, signal) ==
  IF TypeOf(r) = "number" THEN [code |-> r, signal |-> Null]
  ELSE [code |-> code, signal |-> signal]

\* lines 183-190: the final (code, signal) after the cleanup value res
FinalDisposition(r, code, signal) ==
  IF TypeOf(r) = "string" THEN [code |-> Null, signal |-> r]
  ELSE IF TypeOf(r) = "number" THEN [code |-> r, signal |-> Null]
  ELSE [code |-> code, signal |-> signal]

\* process.kill(process.pid, sig) as the close handler sees it
selfKill(sig) ==
  [op |-> "kill", sig |-> sig,
   outcome |-> IF sig \in sendable THEN "sent" ELSE "throw"]

\* variant: the code is dropped, process.exit(0)
CodeOrZeroAlwaysZero(code) == 0

\* code || 0
CodeOrZero(code) == IF Truthy(code) THEN code.n ELSE 0

\* variant: a failed self-signal is not followed by SIGTERM
TerminateNoFallback(final) ==
  IF Truthy(final.signal)
  THEN <<[op |-> "setTimeout"], selfKill(final.signal.s)>>
  ELSE <<[op |-> "exit", code |-> CodeOrZero(final.code)]>>

\* lines 192-209: the calls that terminate the parent, in order
Terminate(final) ==
  IF Truthy(final.signal)
  THEN LET first == selfKill(final.signal.s) IN
       IF first.outcome = "throw"
       THEN <<[op |-> "setTimeout"], first, selfKill("SIGTERM")>>
       ELSE <<[op |-> "setTimeout"], first>>
  ELSE <<[op |-> "exit", code |-> CodeOrZero(final.code)]>>

\* whether the parent process survives the calls of Terminate: exit ends
\* it, a signal sent to itself ends it unless a listener catches it
Survives(calls, procListeners) ==
  \A i \in 1..Len(calls) :
    /\ calls[i].op # "exit"
    /\ (calls[i].op = "kill" /\ calls[i].outcome = "sent")
         => \E l \in procListeners : l.sig = calls[i].sig

\* variant: every falsy value vetoes, if (!res) return
isVetoFalsy(r) == ~Truthy(r)

\* variant: the veto is tested against true
isVetoOnTrue(r) == r = True

\* line 183: res === false
isVeto(r) == r = False

\* variant: the exit hook is left registered
removeOnExitKeeps(hook) == hook

\* line 181: removeOnExit(), the remover returned by onExit (line 166)
removeOnExit(hook) == FALSE

\* lines 181-209: the close handler from removeOnExit() to its end; a hook
\* that is still registered runs when these calls end the parent
Finish(r, code, signal) ==
  /\ res' = r
  /\ exitHook' = removeOnExit(exitHook)
  /\ IF isVeto(r)
     THEN /\ closePc' = "returned"
          /\ UNCHANGED <<parentLog, parentEnd, childLog>>
     ELSE LET calls == Terminate(FinalDisposition(r, code, signal)) IN
          /\ parentLog' = parentLog \o calls
          /\ parentEnd' = IF Survives(calls, signalListeners)
                          THEN "none" ELSE "reconciler"
          /\ childLog' = IF exitHook' /\ parentEnd' = "reconciler"
                         THEN childLog \o childHangup ELSE childLog
          /\ closePc' = IF calls[Len(calls)].op = "kill"
                           /\ calls[Len(calls)].outcome = "throw"
                        THEN "threw" ELSE "returned"

\* variant: the guard flag is not consulted
closeGuardOff == FALSE

\* line 174: if (done) return
closeGuard == done

\* the child's 'close' event: the handler of lines 172-210 up to the await
onClose ==
  /\ phase = "started" /\ parentAlive /\ ~childAlive
  /\ exitEmitted >= 1
  /\ closeEmitted < MaxEmit
  /\ closeEmitted' = closeEmitted + 1
  /\ IF closeGuard
     THEN UNCHANGED <<done, cleanupCalls, closePc, promise, saved, res,
                      exitHook, parentLog, parentEnd, childLog>>
     ELSE /\ done' = TRUE
          /\ cleanupCalls' = Append(cleanupCalls,
               [code |-> childDisp.code, signal |-> childDisp.signal,
                watchdogPid |-> dog # "none"])
          /\ \/ \* cleanup throws
                /\ closePc' = "threw"
                /\ UNCHANGED <<promise, saved, res, exitHook, parentLog,
                               parentEnd, childLog>>
             \/ \E result \in CleanupValues \cup {PromiseObj} :
                  /\ promise' = IF result = PromiseObj
                                THEN [state |-> "pending"] ELSE promise
                  /\ IF isPromise(result)
                     THEN /\ closePc' = "awaiting"
                          /\ saved' = childDisp
                          /\ UNCHANGED <<res, exitHook, parentLog,
                                         parentEnd, childLog>>
                     ELSE /\ Finish(result, childDisp.code,
                                    childDisp.signal)
                          /\ UNCHANGED saved
  /\ UNCHANGED <<platformVars, phase, messageListeners, childMessageRelay, msgs,
                 signalListeners, listeners, dog, childAlive, childDisp,
                 exitEmitted, delivered>>

\* the promise returned by cleanup settles
promiseSettles ==
  /\ parentAlive
  /\ promise.state = "pending"
  /\ \/ \E v \in CleanupValues : promise' = [state |-> "resolved", value |-> v]
     \/ promise' = [state |-> "rejected"]
  /\ UNCHANGED <<platformVars, phase, messageListeners, childMessageRelay, msgs,
                 signalListeners, listeners, exitHook, dog, done, closePc,
                 saved, res, cleanupCalls, parentEnd, parentLog, childAlive,
                 childDisp, exitEmitted, closeEmitted, childLog, delivered>>

\* variant: a rejection is caught and the child's disposition is adopted
onCloseResumeRecovers ==
  /\ parentAlive
  /\ closePc = "awaiting"
  /\ promise.state \in {"resolved", "rejected"}
  /\ IF promise.state = "rejected"
     THEN Finish(Undefined, saved.code, saved.signal)
     ELSE Finish(promise.value, saved.code, saved.signal)
  /\ UNCHANGED <<platformVars, phase, messageListeners, childMessageRelay, msgs,
                 signalListeners, listeners, dog, done, promise, saved,
                 cleanupCalls, childAlive, childDisp, exitEmitted,
                 closeEmitted, delivered>>

\* the close handler resumes after `await result`
onCloseResume ==
  /\ parentAlive
  /\ closePc = "awaiting"
  /\ promise.state \in {"resolved", "rejected"}
  /\ IF promise.state = "rejected"
     THEN /\ closePc' = "threw"
          /\ UNCHANGED <<res, exitHook, parentLog, parentEnd, childLog>>
     ELSE Finish(promise.value, saved.code, saved.signal)
  /\ UNCHANGED <<platformVars, phase, messageListeners, childMessageRelay, msgs,
                 signalListeners, listeners, dog, done, promise, saved,
                 cleanupCalls, childAlive, childDisp, exitEmitted,
                 closeEmitted, delivered>>

\* the child's 'exit' event: unproxy (proxy-signals.ts line 41)
onExitEvent ==
  /\ phase = "started" /\ parentAlive /\ ~childAlive
  /\ exitEmitted < MaxEmit
  /\ exitEmitted' = exitEmitted + 1
  /\ signalListeners' = unproxy(signalListeners, listeners)
  /\ UNCHANGED <<platformVars, phase, messageListeners, childMessageRelay, msgs,
                 listeners, exitHook, dog, done, closePc, promise, saved,
                 res, cleanupCalls, parentEnd, parentLog, childAlive,
                 childDisp, closeEmitted, childLog, delivered>>

(* ----------------------------- environment ----------------------------- *)

\* the child process terminates with a code or by a signal
childTerminates ==
  /\ phase = "started" /\ childAlive
  /\ childAlive' = FALSE
  /\ \E d \in ChildDispositions : childDisp' = d
  /\ UNCHANGED <<platformVars, phase, messageListeners, childMessageRelay, msgs,
                 signalListeners, listeners, exitHook, dog, done, closePc,
                 promise, saved, res, cleanupCalls, parentEnd, parentLog,
                 exitEmitted, closeEmitted, childLog, delivered>>

\* a catchable signal is delivered to the parent: its listeners run; with
\* no listener left, the exit hook (if registered) runs and the parent dies
signalToParent ==
  /\ phase = "started" /\ parentAlive
  /\ Len(delivered) < MaxSignals
  /\ \E sig \in Signals :
       LET here == {l \in signalListeners : l.sig = sig} IN
       /\ delivered' = Append(delivered, sig)
       /\ IF here # {}
          THEN /\ childLog' = IF [sig |-> sig, owner |-> "proxy"] \in here
                              THEN childLog \o listener(sig) ELSE childLog
               /\ parentEnd' =
                    IF /\ [sig |-> sig, owner |-> "proxy"] \in here
                       /\ ~swallowed(listener(sig)[1].outcome)
                    THEN "exception" ELSE parentEnd
          ELSE /\ childLog' = IF exitHook THEN childLog \o childHangup
                              ELSE childLog
               /\ parentEnd' = "signal"
  /\ UNCHANGED <<platformVars, phase, messageListeners, childMessageRelay, msgs,
                 signalListeners, listeners, exitHook, dog, done, closePc,
                 promise, saved, res, cleanupCalls, parentLog, childAlive,
                 childDisp, exitEmitted, closeEmitted>>

\* a message arrives on the parent's channel
parentMessage ==
  /\ phase = "started" /\ parentAlive /\ hasIPC
  /\ msgs.in + msgs.fromChild < MaxMessages
  /\ msgs' = onProcessMessage(messageListeners, msgs)
  /\ UNCHANGED <<platformVars, phase, messageListeners, childMessageRelay,
                 signalListeners, listeners, exitHook, dog, done, closePc,
                 promise, saved, res, cleanupCalls, parentEnd, parentLog,
                 childAlive, childDisp, exitEmitted, closeEmitted, childLog,
                 delivered>>

\* the child sends a message over the channel it was spawned with
childMessage ==
  /\ phase = "started" /\ parentAlive /\ hasIPC
  /\ closeEmitted = 0
  /\ msgs.in + msgs.fromChild < MaxMessages
  /\ msgs' = onChildMessage(childMessageRelay, msgs)
  /\ UNCHANGED <<platformVars, phase, messageListeners, childMessageRelay,
                 signalListeners, listeners, exitHook, dog, done, closePc,
                 promise, saved, res, cleanupCalls, parentEnd, parentLog,
                 childAlive, childDisp, exitEmitted, closeEmitted, childLog,
                 delivered>>

\* the host program ends the parent (process.exit, or the loop drains):
\* the exit hook runs if it is still registered
hostExit ==
  /\ phase = "started" /\ parentAlive
  /\ parentEnd' = "exit"
  /\ childLog' = IF exitHook THEN childLog \o childHangup ELSE childLog
  /\ UNCHANGED <<platformVars, phase, messageListeners, childMessageRelay, msgs,
                 signalListeners, listeners, exitHook, dog, done, closePc,
                 promise, saved, res, cleanupCalls, parentLog, childAlive,
                 childDisp, exitEmitted, closeEmitted, delivered>>

\* the parent is killed by a signal it cannot catch: no handler runs
parentKilled ==
  /\ phase = "started" /\ parentAlive
  /\ parentEnd' = "kill"
  /\ UNCHANGED <<platformVars, phase, messageListeners, childMessageRelay, msgs,
                 signalListeners, listeners, exitHook, dog, done, closePc,
                 promise, saved, res, cleanupCalls, parentLog, childAlive,
                 childDisp, exitEmitted, closeEmitted, childLog, delivered>>

(* ------------------------------ watchdog ------------------------------- *)

\* the signal the helper sends to the child
WatchdogSignal == "SIGKILL"

\* variant: the helper exits without signalling the child
watchdogBarkSilent ==
  /\ dog = "polling" /\ ~parentAlive
  /\ dog' = "exited"
  /\ UNCHANGED <<platformVars, phase, messageListeners, childMessageRelay, msgs,
                 signalListeners, listeners, exitHook, done, closePc,
                 promise, saved, res, cleanupCalls, parentEnd, parentLog,
                 childAlive, childDisp, exitEmitted, closeEmitted, childLog,
                 delivered>>

\* one poll of the helper that finds the parent gone: kill the child, exit
watchdogBark ==
  /\ dog = "polling" /\ ~parentAlive
  /\ dog' = "exited"
  /\ childLog' = Append(childLog,
       [sig |-> WatchdogSignal, by |-> "watchdog", outcome |-> "sent"])
  /\ childAlive' = FALSE
  /\ childDisp' = IF childAlive
                  THEN [code |-> Null, signal |-> Str(WatchdogSignal)]
                  ELSE childDisp
  /\ UNCHANGED <<platformVars, phase, messageListeners, childMessageRelay, msgs,
                 signalListeners, listeners, exitHook, done, closePc,
                 promise, saved, res, cleanupCalls, parentEnd, parentLog,
                 exitEmitted, closeEmitted, delivered>>

Next ==
  \/ foregroundChild
  \/ onClose
  \/ promiseSettles
  \/ onCloseResume
  \/ onExitEvent
  \/ childTerminates
  \/ signalToParent
  \/ hostExit
  \/ parentKilled
  \/ parentMessage
  \/ childMessage
  \/ watchdogBark

Spec == Init /\ [][Next]_vars

\* the watchdog helper is a process of its own and keeps polling
FairSpec == Spec /\ WF_vars(watchdogBark)

(* ------------------------------ properties ----------------------------- *)

\* the close handler ran to its end with a cleanup value
Reconciled == closePc \in {"returned", "threw"} /\ res # Unset

\* what the child reported to the cleanup callback
Reported == cleanupCalls[1]

\* the exit and self-kill calls of the close handler, without the keep-alive
ParentCalls == SelectSeq(parentLog, LAMBDA c : c.op # "setTimeout")

NoExitCall == \A i \in 1..Len(parentLog) : parentLog[i].op # "exit"
NoKillCall == \A i \in 1..Len(parentLog) : parentLog[i].op # "kill"

\* C1: when cleanup returns undefined (directly or through a promise) the
\* parent ends as the child did: a child that exited with code c makes the
\* parent call exit(c) and nothing else, a child killed by signal s makes
\* the parent send s to itself first and never call exit
C1_Undefined_Adopts_Child ==
  (Reconciled /\ res = Undefined) =>
    IF Reported.signal = Null
    THEN ParentCalls = <<[op |-> "exit", code |-> Reported.code.n]>>
    ELSE /\ ParentCalls # <<>>
         /\ ParentCalls[1].op = "kill"
         /\ ParentCalls[1].sig = Reported.signal.s
         /\ NoExitCall

C1_Witness ==
  /\ Reconciled /\ res = Undefined
  /\ promise.state = "resolved"
  /\ Reported.signal = Str("SIGINT")
  /\ ParentCalls = <<[op |-> "kill", sig |-> "SIGINT", outcome |-> "sent"]>>

\* C2: when cleanup returns false (directly or through a promise) the close
\* handler never calls exit and never sends a signal to the parent
C2_Veto_Never_Terminates ==
  res = False => (parentLog = <<>> /\ parentEnd # "reconciler")

C2_Witness ==
  /\ res = False /\ closePc = "returned"
  /\ closeEmitted = MaxEmit
  /\ Reported.signal # Null
  /\ parentAlive

\* C3: when cleanup returns a number N the parent calls exit(N), also for
\* N = 0 and for a child killed by a signal, and sends itself no signal
C3_Number_Exits_With_N ==
  res.t = "number" =>
    (parentLog = <<[op |-> "exit", code |-> res.n]>> /\ NoKillCall)

C3_Witness ==
  /\ res = Num(0)
  /\ Reported.signal = Str("SIGTERM")
  /\ parentLog = <<[op |-> "exit", code |-> 0]>>
  /\ parentEnd = "reconciler"

C5_Promise_Awaited ==
  promise.state # "none" =>
    /\ (promise.state = "pending" \/ closePc = "awaiting") => parentLog = <<>>
    /\ parentLog # <<>> =>
         /\ promise.state = "resolved" /\ res = promise.value
         /\ res.t = "number" =>
              parentLog = <<[op |-> "exit", code |-> res.n]>>
         /\ (res.t = "string" /\ res.s \in Signals) =>
              (ParentCalls[1].op = "kill" /\ ParentCalls[1].sig = res.s)

C5_Witness ==
  /\ promise = [state |-> "resolved", value |-> Num(42)]
  /\ delivered # <<>>
  /\ closeEmitted = MaxEmit
  /\ parentLog = <<[op |-> "exit", code |-> 42]>>

\* the rounds of parent termination the close handler started
TerminationRounds ==
  Len(SelectSeq(parentLog, LAMBDA c : c.op \in {"exit", "setTimeout"}))

\* C6: cleanup is invoked exactly once from the first 'close' on, and the
\* parent's termination is performed at most once, however many times
\* 'close' is delivered
C6_Close_Fires_Once ==
  /\ Len(cleanupCalls) = (IF closeEmitted >= 1 THEN 1 ELSE 0)
  /\ TerminationRounds <= 1

C6_Witness ==
  /\ closeEmitted = MaxEmit
  /\ closePc = "awaiting"
  /\ promise.state = "pending"
  /\ Len(cleanupCalls) = 1

\* C7: while the child has not reported its exit, a delivered signal that
\* the parent could subscribe to and that can be sent is forwarded to the
\* child under the same name
C7_Signals_Forwarded ==
  [][\A sig \in Signals :
       (/\ delivered' = Append(delivered, sig)
        /\ exitEmitted = 0
        /\ sig \in subscribable \cap sendable)
       => childLog' = Append(childLog,
            [sig |-> sig, by |-> "proxy", outcome |-> "sent"])]_vars

C7_Witness ==
  /\ delivered = <<"SIGINT">>
  /\ childLog = <<[sig |-> "SIGINT", by |-> "proxy", outcome |-> "sent"]>>
  /\ childAlive

\* C8: once the close handler has returned, the listeners Map is empty, no
\* listener of the proxy is left on the parent, and the parent has no
\* 'message' listener besides those it had before the call
C8_Clean_After_Terminal ==
  closePc = "returned" =>
    /\ listeners = {}
    /\ signalListeners \cap ProxyRecords(Signals) = {}
    /\ messageListeners \subseteq preMessage

\* C9: while the exit hook is due (from the call until the close handler
\* passes its await), a parent that exits on its own account sends SIGHUP to
\* the child, and SIGTERM once after it exactly when the SIGHUP send throws
C9_Hook_Hangs_Up_Child ==
  [][(/\ phase = "started" /\ closePc \in {"idle", "awaiting"}
      /\ parentAlive /\ parentEnd' \in {"exit", "signal"})
     => \E o \in {"sent", "noop", "throw"} :
          childLog' = childLog \o
            (IF "SIGHUP" \in sendable
             THEN <<[sig |-> "SIGHUP", by |-> "hook", outcome |-> o]>>
             ELSE <<[sig |-> "SIGHUP", by |-> "hook", outcome |-> "throw"],
                    [sig |-> "SIGTERM", by |-> "hook", outcome |-> o]>>)]_vars

C9_Witness ==
  /\ parentEnd = "exit"
  /\ closePc = "awaiting"
  /\ childLog = <<[sig |-> "SIGHUP", by |-> "hook", outcome |-> "throw"],
                  [sig |-> "SIGTERM", by |-> "hook", outcome |-> "noop"]>>

\* C10: a parent killed without running any handler, while the child is
\* alive and the watchdog helper is polling, leads to the helper having
\* signalled the child and exited, with the child no longer running
C10_Watchdog_Reaps_Child ==
  (parentEnd = "kill" /\ childAlive /\ dog = "polling")
    ~> (/\ dog = "exited" /\ ~childAlive
        /\ \E i \in 1..Len(childLog) :
             childLog[i].by = "watchdog" /\ childLog[i].sig = WatchdogSignal)

C10_Witness ==
  /\ parentEnd = "kill"
  /\ dog = "exited"
  /\ childDisp.signal = Str(WatchdogSignal)
  /\ childLog = <<[sig |-> WatchdogSignal, by |-> "watchdog",
                   outcome |-> "sent"]>>

\* C11: when cleanup throws or its promise rejects, the close handler ends
\* with the error (its own promise rejects) and makes no exit and no kill
\* call on the parent: the child's disposition is not adopted
C11_Cleanup_Error_No_Recovery ==
  /\ promise.state = "rejected" =>
       (closePc \in {"awaiting", "threw"} /\ res = Unset)
  /\ (cleanupCalls # <<>> /\ res = Unset) =>
       (parentLog = <<>> /\ parentEnd # "reconciler")

C11_Witness ==
  /\ promise.state = "rejected"
  /\ closePc = "threw"
  /\ Reported.code = Num(3)
  /\ closeEmitted = MaxEmit
  /\ parentAlive

\* C12: with a message channel at spawn time every message the parent
\* receives is passed to child.send and every message of the child to
\* process.send, and the parent's own listeners no longer handle any; with
\* no channel no relay exists and the parent's listeners are as before
C12_Message_Relay ==
  phase = "started" =>
    IF hasIPC
    THEN /\ childMessageRelay
         /\ messageListeners \cap preMessage = {}
         /\ msgs.toChild = msgs.in
         /\ msgs.up = msgs.fromChild
         /\ msgs.host = 0
    ELSE /\ ~childMessageRelay
         /\ messageListeners = preMessage
         /\ msgs = NoMessages

C12_Witness ==
  /\ hasIPC /\ preMessage # {}
  /\ msgs.in = 1 /\ msgs.toChild = 1 /\ msgs.host = 0
  /\ closePc = "returned" /\ res = False

\* the proxy's listeners that are registered on the parent
ProxyRegistered == signalListeners \cap ProxyRecords(Signals)

\* C13 as stated: while the close handler waits for the cleanup value, the
\* listeners that proxySignals registered are still on the parent
C13_Proxy_Runs_During_Wait ==
  closePc = "awaiting" => ProxyRegistered = ProxyRecords(listeners)

\* C13 as amended: the proxy's listeners are removed when the child's exit
\* is reported, so none is registered once cleanup has been called; what
\* stays registered during the wait is the parent-exit hook
C13_Proxy_Stops_At_Child_Exit ==
  /\ cleanupCalls # <<>> => ProxyRegistered = {}
  /\ closePc = "awaiting" => exitHook

C13_Witness ==
  /\ closePc = "awaiting" /\ promise.state = "pending"
  /\ exitHook
  /\ listeners = Signals
  /\ ProxyRegistered = {}
  /\ delivered = <<"SIGINT">>
  /\ childLog = <<>>

\* C14: the exit hook stays registered while the close handler waits and is
\* removed before the handler's exit or kill for every cleanup value, so
\* these calls never make the hook signal the child; a parent that exits on
\* its own account during the wait still runs the hook
C14_Hook_Removed_Before_Exit ==
  [][/\ closePc = "awaiting" => exitHook
     /\ closePc' = "returned" => ~exitHook'
     /\ parentLog' # parentLog => (childLog' = childLog /\ ~exitHook')
     /\ (closePc = "awaiting" /\ parentAlive
           /\ parentEnd' \in {"exit", "signal"})
          => Len(childLog') > Len(childLog)]_vars

C14_Witness ==
  /\ promise.state = "resolved"
  /\ parentEnd = "reconciler"
  /\ parentLog # <<>>
  /\ ~exitHook
  /\ childLog = <<>>

\* C15: in every state a signal name is a key of the listeners Map exactly
\* when the parent is subscribed with the proxy's listener for it
C15_Table_Iff_Subscribed ==
  listeners = {l.sig : l \in ProxyRegistered}

\* the signal listeners on the parent that the proxy did not install
HostRegistered == signalListeners \ ProxyRecords(Signals)

C17_Signal_Branch_Single_Fallback ==
  (parentLog # <<>> /\ parentLog[1].op = "setTimeout") =>
    /\ Len(parentLog) \in {2, 3}
    /\ parentLog[2].op = "kill"
    /\ parentLog[2].sig =
         (IF res.t = "string" THEN res.s ELSE Reported.signal.s)
    /\ Len(parentLog) = 3 <=> parentLog[2].outcome = "throw"
    /\ Len(parentLog) = 3 =>
         (parentLog[3].op = "kill" /\ parentLog[3].sig = "SIGTERM")
    /\ NoExitCall

C17_Witness ==
  /\ res = Undefined
  /\ Reported.signal = Str("SIGHUP")
  /\ parentLog = <<[op |-> "setTimeout"],
                   [op |-> "kill", sig |-> "SIGHUP", outcome |-> "throw"],
                   [op |-> "kill", sig |-> "SIGTERM", outcome |-> "sent"]>>
  /\ parentEnd = "reconciler"

\* the (code, signal) of the close handler after the overrides
Final == FinalDisposition(res, Reported.code, Reported.signal)

\* C18: the final disposition never has both a code and a signal: a string
\* override leaves no code, a numeric override leaves no signal; with no
\* signal to send the parent exits with the code, or with 0 when there is
\* no code
C18_Final_Disposition_One_Of ==
  (Reconciled /\ res # False) =>
    /\ ~(Final.code # Null /\ Final.signal # Null)
    /\ res.t = "string" => Final.code = Null
    /\ res.t = "number" => Final.signal = Null
    /\ ~Truthy(Final.signal) =>
         parentLog = <<[op |-> "exit",
                        code |-> IF Final.code = Null THEN 0
                                 ELSE Final.code.n]>>

C18_Witness ==
  /\ res = Str("")
  /\ Reported.code = Num(3)
  /\ Final = [code |-> Null, signal |-> Str("")]
  /\ parentLog = <<[op |-> "exit", code |-> 0]>>

\* the state of the reconciler and of the parent's registrations
CourseVars ==
  <<phase, closePc, done, res, signalListeners, listeners, exitHook,
    messageListeners, parentEnd, parentLog, cleanupCalls>>

\* C19: tolerated failures do not change the course of the run: whatever
\* subscriptions failed and whether or not the watchdog spawned, the call
\* leaves the reconciler started with the hook set; a forwarding that
\* throws changes nothing but the record of the attempt; and the first
\* 'close' still invokes cleanup
C19_Tolerated_Failures ==
  [][/\ (phase = "idle" /\ phase' = "started") =>
          /\ listeners' = Signals \cap subscribable
          /\ closePc' = "idle" /\ parentEnd' = "none"
          /\ exitHook' /\ parentLog' = <<>>
     /\ \A sig \in Signals :
          (/\ delivered' = Append(delivered, sig)
           /\ [sig |-> sig, owner |-> "proxy"] \in signalListeners
           /\ sig \notin sendable)
          => /\ UNCHANGED CourseVars
             /\ childLog' = Append(childLog,
                  [sig |-> sig, by |-> "proxy", outcome |-> "throw"])
     /\ (closeEmitted = 0 /\ closeEmitted' = 1) =>
          Len(cleanupCalls') = 1]_vars

C19_Witness ==
  /\ dog = "none"
  /\ subscribable # Signals
  /\ childLog = <<[sig |-> "SIGHUP", by |-> "proxy", outcome |-> "throw"]>>
  /\ closePc = "returned"
  /\ res = Undefined
  /\ parentLog = <<[op |-> "exit", code |-> 3]>>

\* C20: a cleanup value that is neither false nor a string nor a number
\* (true, null, an object without then) is handled as undefined is: the
\* parent ends with the child's disposition, exit(code) for a code and the
\* child's signal sent first for a signal; only false leaves the parent
\* without any exit or kill call
C20_Other_Values_Are_Noop ==
  /\ (Reconciled /\ res \in {True, Null, PlainObj}) =>
       IF Reported.signal = Null
       THEN parentLog = <<[op |-> "exit", code |-> Reported.code.n]>>
       ELSE /\ Len(parentLog) >= 2
            /\ parentLog[2].op = "kill"
            /\ parentLog[2].sig = Reported.signal.s
            /\ NoExitCall
  /\ (Reconciled /\ res # False) => parentLog # <<>>

C20_Witness ==
  /\ res = Null
  /\ promise.state = "resolved"
  /\ Reported.signal = Str("SIGTERM")
  /\ parentLog = <<[op |-> "setTimeout"],
                   [op |-> "kill", sig |-> "SIGTERM", outcome |-> "sent"]>>

====
